---- MODULE Spec2Model ----
(***************************************************************************)
(* Model of the Stryktipset weekly batch: the data processor               *)
(* (src/data_processor.py) that assembles match records and stores them,   *)
(* and the prediction engine (src/prediction_engine.py) that reads them,   *)
(* computes outcome probabilities and stores three betting combinations.   *)
(*                                                                         *)
(* Numbers.  Probabilities and confidences are the values after            *)
(* round(x, 3), held as integers in thousandths (0.272 is 272).  Decimal   *)
(* odds are integers in hundredths (2.10 is 210).  recent_form entries are *)
(* integers in halves (0 loss, 1 draw = 0.5, 2 win = 1).  Intermediate     *)
(* values are exact: integers in a common unit that each operator names.   *)
(*                                                                         *)
(* Dictionaries.  A Python dict is a record with a field "has", the set of *)
(* keys present, next to one field per possible key; dict.get(k, default)  *)
(* is Get(d, k, default).                                                  *)
(***************************************************************************)
EXTENDS Integers, Sequences, FiniteSets, TLC

\* ------------------------------------------------------------------ bounds
\* longest recent_form sequence enumerated exhaustively for the form score
MaxFormLen == 6
\* longest recent_form sequence enumerated exhaustively inside match records
MaxShortForm == 1
\* longest list of matches handed to the combination generator
MaxMatches == 2

\* -------------------------------------------------------------- arithmetic
Min(a, b) == IF a < b THEN a ELSE b

Max(a, b) == IF a > b THEN a ELSE b

Abs(a) == IF a < 0 THEN 0 - a ELSE a

\* the value of x, evaluated once, handed to F
Apply(x, F(_)) == CHOOSE r \in {F(v) : v \in {x}} : TRUE

\* round(n / d, 3) for n >= 0 and d > 0, in thousandths: the nearest
\* thousandth, and the even neighbour when n / d is exactly half-way, as
\* Python's round does for a value that is exactly half-way.  up is
\* floor(1000 * n / d + 1/2) and rem the remainder of that division.
HalfEven(up, rem) == IF rem = 0 /\ up % 2 = 1 THEN up - 1 ELSE up

Round3(n, d) == HalfEven((2000 * n + d) \div (2 * d), (2000 * n + d) % (2 * d))

\* ------------------------------------------------------------ dictionaries
Get(d, k, default) == IF k \in d.has THEN d[k] ELSE default

\* ------------------------------------------------------- calculate_form_score
\* np.array([1.0, 0.8, 0.6, 0.4, 0.2]), in fifths
Weights == <<5, 4, 3, 2, 1>>

\* sum of a[i] * w[i] from i on, in tenths (halves times fifths)
RECURSIVE WeightedSum(_, _, _)
WeightedSum(a, w, i) ==
    IF i > Len(a) THEN 0 ELSE a[i] * w[i] + WeightedSum(a, w, i + 1)

\* sum of w[i] from i on, in fifths
RECURSIVE SumWeights(_, _)
SumWeights(w, i) == IF i > Len(w) THEN 0 ELSE w[i] + SumWeights(w, i + 1)

\* a form score num / den; raised = TRUE when np.average raises (shapes of
\* a and weights differ)
FormOk(n, d) == [raised |-> FALSE, num |-> n, den |-> d]

FormRaised == [raised |-> TRUE, num |-> 0, den |-> 1]

\* np.average(a, weights=w) = sum(a * w) / sum(w): tenths over fifths
calculate_form_score(recent_form) ==
    IF recent_form = <<>> THEN FormOk(1, 2)
    ELSE LET weights == SubSeq(Weights, 1, Min(Len(Weights), Len(recent_form)))
         IN  IF Len(weights) # Len(recent_form) THEN FormRaised
             ELSE FormOk(WeightedSum(recent_form, weights, 1),
                         2 * SumWeights(weights, 1))

\* ------------------------------------------------------------- match records
\* {} for a team history and for an odds block
EmptyHistory == [has |-> {}, recent_form |-> <<>>]

EmptyOdds == [has |-> {}, home_win |-> 0, draw |-> 0, away_win |-> 0]

\* an OutcomeProbabilities dict; raised = TRUE when the call raises instead
Prediction(h, d, a, c) ==
    [raised |-> FALSE, home_prob |-> h, draw_prob |-> d, away_prob |-> a,
     confidence |-> c]

PredictionRaised ==
    [raised |-> TRUE, home_prob |-> 0, draw_prob |-> 0, away_prob |-> 0,
     confidence |-> 0]

\* --------------------------------------------------- predict_match_form_based
\* lines 62-67 and 90: adjusted_home_form, away_form and total_strength, in
\* units of 1 / (10 * home_form.den * away_form.den), and the confidence
FormStrengths(home_form, away_form) ==
    [adjusted_home_form |-> (10 * home_form.num + home_form.den) * away_form.den,
     away_form |-> 10 * away_form.num * home_form.den,
     total_strength |-> (10 * home_form.num + home_form.den) * away_form.den
                        + 10 * away_form.num * home_form.den,
     confidence |-> Round3(Abs(home_form.num * away_form.den
                               - away_form.num * home_form.den),
                           home_form.den * away_form.den)]

\* lines 75-80: x / total_strength * 0.7 + 0.15 for home and away, and
\* max(0.1, 1 - home_prob - away_prob), in units of 1 / (20 * total_strength)
FormRaw(s) ==
    [home_prob |-> 14 * s.adjusted_home_form + 3 * s.total_strength,
     away_prob |-> 14 * s.away_form + 3 * s.total_strength,
     draw_prob |-> Max(2 * s.total_strength,
                       20 * s.total_strength
                       - (14 * s.adjusted_home_form + 3 * s.total_strength)
                       - (14 * s.away_form + 3 * s.total_strength)),
     confidence |-> s.confidence]

\* lines 81-91: the division by total and the rounding
FormNormalised(r) ==
    Prediction(Round3(r.home_prob, r.home_prob + r.draw_prob + r.away_prob),
               Round3(r.draw_prob, r.home_prob + r.draw_prob + r.away_prob),
               Round3(r.away_prob, r.home_prob + r.draw_prob + r.away_prob),
               r.confidence)

\* lines 69-91 for the strengths s
FormProbabilities(s) ==
    IF s.total_strength = 0
    THEN Prediction(450, 250, 300, s.confidence)
    ELSE Apply(FormRaw(s), FormNormalised)

\* lines 62-91 for the two form scores
FormPrediction(home_form, away_form) ==
    IF home_form.raised \/ away_form.raised THEN PredictionRaised
    ELSE Apply(FormStrengths(home_form, away_form), FormProbabilities)

predict_match_form_based(match) ==
    Apply(<<calculate_form_score(
               Get(Get(match, "home_team_history", EmptyHistory),
                   "recent_form", <<>>)),
            calculate_form_score(
               Get(Get(match, "away_team_history", EmptyHistory),
                   "recent_form", <<>>))>>,
          LAMBDA form : FormPrediction(form[1], form[2]))

\* lines 105-120 for the three prices.  1 / home_odds, 1 / draw_odds and
\* 1 / away_odds are in units of
\* 100 / (home_odds * draw_odds * away_odds).
OddsProbabilities(home_odds, draw_odds, away_odds) ==
    LET home_inv == draw_odds * away_odds
        draw_inv == home_odds * away_odds
        away_inv == home_odds * draw_odds
        total_prob == home_inv + draw_inv + away_inv
    IN  Prediction(Round3(home_inv, total_prob), Round3(draw_inv, total_prob),
                   Round3(away_inv, total_prob),
                   Round3(total_prob - Min(home_inv, Min(draw_inv, away_inv)),
                          total_prob))

\* mutant of predict_match_odds_based: no fallback to the form-based model,
\* an empty odds block is priced with the defaults 2.0 / 3.0 / 2.0
predict_match_odds_based_noFallback(match) ==
    LET odds == Get(match, "odds", EmptyOdds)
    IN  OddsProbabilities(Get(odds, "home_win", 200), Get(odds, "draw", 300),
                          Get(odds, "away_win", 200))

\* --------------------------------------------------- predict_match_odds_based
predict_match_odds_based(match) ==
    LET odds == Get(match, "odds", EmptyOdds)
    IN  IF odds.has = {} THEN predict_match_form_based(match)
        ELSE OddsProbabilities(Get(odds, "home_win", 200),
                               Get(odds, "draw", 300),
                               Get(odds, "away_win", 200))

\* ------------------------------------------------------- predict_match_hybrid
\* 0.6 * odds + 0.4 * form of two values in thousandths, after round(x, 3);
\* 6 * o + 4 * f is even, so the blend is never half-way between thousandths
Blend(o, f) == Round3(6 * o + 4 * f, 10000)

\* lines 127-139.  The blended confidence (o + f) / 2 is half-way between
\* two thousandths when o + f is odd; there the binary double decides the
\* direction and the value below is the even neighbour.  No operation reads
\* this field.
HybridBlend(form_prediction, odds_prediction) ==
    IF form_prediction.raised \/ odds_prediction.raised THEN PredictionRaised
    ELSE Prediction(
           Blend(odds_prediction.home_prob, form_prediction.home_prob),
           Blend(odds_prediction.draw_prob, form_prediction.draw_prob),
           Blend(odds_prediction.away_prob, form_prediction.away_prob),
           Round3(odds_prediction.confidence + form_prediction.confidence,
                  2000))

predict_match_hybrid(match) ==
    Apply(<<predict_match_form_based(match), predict_match_odds_based(match)>>,
          LAMBDA p : HybridBlend(p[1], p[2]))

\* ------------------------------------------------------- get_match_prediction
\* mutant of MaxKey: a later key also wins an exact tie
MaxKey_lastTie(prediction) ==
    LET afterX == IF prediction.draw_prob >= prediction.home_prob
                  THEN "X" ELSE "1"
        bestX  == IF afterX = "X" THEN prediction.draw_prob
                  ELSE prediction.home_prob
    IN  IF prediction.away_prob >= bestX THEN "2" ELSE afterX

\* max(probs, key=probs.get) over the keys '1', 'X', '2' in insertion order:
\* a later key replaces the running maximum only when strictly greater
MaxKey(prediction) ==
    LET afterX == IF prediction.draw_prob > prediction.home_prob
                  THEN "X" ELSE "1"
        bestX  == IF afterX = "X" THEN prediction.draw_prob
                  ELSE prediction.home_prob
    IN  IF prediction.away_prob > bestX THEN "2" ELSE afterX

\* lines 150-158: the returned pair, and raised when the model raised
Selected(prediction) ==
    [raised |-> prediction.raised,
     predicted_result |-> IF prediction.raised THEN "1" ELSE MaxKey(prediction),
     prediction |-> prediction]

get_match_prediction(match, method) ==
    Apply(IF method = "form_based" THEN predict_match_form_based(match)
          ELSE IF method = "odds_based" THEN predict_match_odds_based(match)
          ELSE predict_match_hybrid(match),
          Selected)

\* ------------------------------------------ generate_stryktipset_combinations
\* the body of the first loop
HybridPick(match) == get_match_prediction(match, "hybrid").predicted_result

\* mutant of ConservativePick: home is compared with away before the draw test
ConservativePick_homeFirst(match) ==
    Apply(get_match_prediction(match, "hybrid").prediction,
          LAMBDA details :
              IF details.home_prob > details.away_prob THEN "1"
              ELSE IF details.draw_prob > 250 THEN "X"
              ELSE "2")

\* the body of the second loop
ConservativePick(match) ==
    Apply(get_match_prediction(match, "hybrid").prediction,
          LAMBDA details :
              IF details.draw_prob > 250 THEN "X"
              ELSE IF details.home_prob > details.away_prob THEN "1"
              ELSE "2")

\* mutant of ValuePick: the form outcome is taken whenever the two outcomes
\* differ, whatever the confidence
ValuePick_anyConfidence(match) ==
    Apply(<<get_match_prediction(match, "form_based"),
            get_match_prediction(match, "odds_based")>>,
          LAMBDA r :
              IF r[1].predicted_result # r[2].predicted_result
              THEN r[1].predicted_result
              ELSE r[2].predicted_result)

\* the body of the third loop
ValuePick(match) ==
    Apply(<<get_match_prediction(match, "form_based"),
            get_match_prediction(match, "odds_based")>>,
          LAMBDA r :
              IF r[1].predicted_result # r[2].predicted_result
                 /\ r[1].prediction.confidence > 300
              THEN r[1].predicted_result
              ELSE r[2].predicted_result)

Combination(method, combo, description, confidence) ==
    [method |-> method, combination |-> combo, description |-> description,
     confidence |-> confidence]

\* raised = TRUE when a model raises for one of the matches; otherwise
\* combinations is the returned list
generate_stryktipset_combinations(matches) ==
    IF \E i \in 1..Len(matches) :
          get_match_prediction(matches[i], "hybrid").raised
    THEN [raised |-> TRUE, combinations |-> <<>>]
    ELSE [raised |-> FALSE,
          combinations |->
            << Combination("Hybrid Prediction",
                           [i \in 1..Len(matches) |-> HybridPick(matches[i])],
                           "Most likely outcome for each match", "Medium"),
               Combination("Conservative",
                           [i \in 1..Len(matches) |-> ConservativePick(matches[i])],
                           "Safer picks favoring draws and home wins", "High"),
               Combination("Value Betting",
                           [i \in 1..Len(matches) |-> ValuePick(matches[i])],
                           "Looking for odds vs form discrepancies", "Low") >>]

\* ------------------------------------------------------------------- inputs
\* recent_form entries: 0 (loss), 0.5 (draw), 1 (win), in halves
Results == {0, 1, 2}

\* all sequences over S of length 0..n
RECURSIVE SeqsUpTo(_, _)
SeqsUpTo(S, n) ==
    IF n = 0 THEN {<<>>}
    ELSE LET shorter == SeqsUpTo(S, n - 1)
         IN  shorter \cup {Append(s, x) : s \in {t \in shorter : Len(t) = n - 1},
                                          x \in S}

\* fetch_historical_data: the sample 'recent_form': [1, 1, 0, 1, 0]
SampleForm == <<2, 2, 0, 2, 0>>

\* a history longer than the weight vector
OverlongForm == <<2, 2, 0, 2, 0, 1>>

\* recent_form values carried by match records
MatchForms == SeqsUpTo(Results, MaxShortForm) \cup {SampleForm, OverlongForm}

History(form) == [has |-> {"recent_form"}, recent_form |-> form]

\* the team history dicts: {} and {'recent_form': [...]}
HistoryInputs == {EmptyHistory} \cup {History(f) : f \in MatchForms}

\* decimal odds in hundredths: the sample quote 2.10 / 3.40 / 3.20 of
\* fetch_betting_odds, and 4.20
Prices == {210, 320, 340, 420}

\* odds dicts: every key is present with a price, or missing
OddsInputs ==
    {[has |-> {k \in {"home_win", "draw", "away_win"} :
                  (k = "home_win" /\ h # 0) \/ (k = "draw" /\ d # 0)
                  \/ (k = "away_win" /\ a # 0)},
      home_win |-> h, draw |-> d, away_win |-> a] :
        h \in Prices \cup {0}, d \in Prices \cup {0}, a \in Prices \cup {0}}

\* a match record; hh, ah, od say whether the key is present
Match(hh, home, ah, away, od, odds) ==
    [has |-> {k \in {"home_team_history", "away_team_history", "odds"} :
                 (k = "home_team_history" /\ hh) \/ (k = "away_team_history" /\ ah)
                 \/ (k = "odds" /\ od)},
     home_team_history |-> home, away_team_history |-> away, odds |-> odds]

\* <<key present, value>> for the two history keys and the odds key
HistorySlots == {<<FALSE, EmptyHistory>>} \cup {<<TRUE, h>> : h \in HistoryInputs}

OddsSlots == {<<FALSE, EmptyOdds>>} \cup {<<TRUE, o>> : o \in OddsInputs}

MatchInputs ==
    {Match(h[1], h[2], a[1], a[2], o[1], o[2]) :
        h \in HistorySlots, a \in HistorySlots, o \in OddsSlots}

\* the quote fetch_betting_odds attaches to every match
SampleOdds ==
    [has |-> {"home_win", "draw", "away_win"},
     home_win |-> 210, draw |-> 340, away_win |-> 320]

\* a match as run_weekly_analysis assembles it
SampleMatch ==
    Match(TRUE, History(SampleForm), TRUE, History(SampleForm), TRUE, SampleOdds)

\* a match without histories and odds
BareMatch == Match(FALSE, EmptyHistory, FALSE, EmptyHistory, FALSE, EmptyOdds)

\* a match whose away history is longer than the weight vector
OverlongMatch ==
    Match(TRUE, History(SampleForm), TRUE, History(OverlongForm), TRUE, SampleOdds)

ListPool == {SampleMatch, BareMatch, OverlongMatch}

\* lists of matches for the generator: the empty list, every single match
\* record, and the lists of 2..n matches over ListPool
MatchLists(n) ==
    {<<>>} \cup {<<m>> : m \in IF n >= 1 THEN MatchInputs ELSE {}}
    \cup {s \in SeqsUpTo(ListPool, n) : Len(s) >= 2}

\* ------------------------------------------------------------------ the clock
\* datetime.now(): march_wd is the weekday of March 1 of now.year (Monday 0
\* .. Sunday 6), t the time since March 1 00:00 of that year in ticks
TicksPerDay == 2

\* January 1 is at most this many days before March 1
DaysBeforeMarch == 60

\* December 31 is this many days after March 1
DaysAfterMarch == 305

Clock(wd, t) == [march_wd |-> wd, t |-> t]

Times ==
    {Clock(wd, t) : wd \in 0..6,
                    t \in (0 - DaysBeforeMarch * TicksPerDay)
                          ..((DaysAfterMarch + 1) * TicksPerDay - 1)}

\* --------------------------------------------------- get_current_round_number
\* StryktipsetDataProcessor.get_current_round_number
DP_get_current_round_number(now) ==
    LET first_saturday == ((5 - now.march_wd) % 7) * TicksPerDay
        weeks_since_start == ((now.t - first_saturday) \div TicksPerDay) \div 7
    IN  IF now.t < first_saturday THEN 1
        ELSE Min(weeks_since_start + 1, 35)

\* mutant of get_current_round_number: the clamp at 35 is missing
get_current_round_number_unclamped(now) ==
    LET first_saturday == ((5 - now.march_wd) % 7) * TicksPerDay
        weeks_since_start == ((now.t - first_saturday) \div TicksPerDay) \div 7
    IN  IF now.t < first_saturday THEN 1
        ELSE weeks_since_start + 1

\* StryktipsetPredictor.get_current_round_number
get_current_round_number(now) ==
    LET first_saturday == ((5 - now.march_wd) % 7) * TicksPerDay
        weeks_since_start == ((now.t - first_saturday) \div TicksPerDay) \div 7
    IN  IF now.t < first_saturday THEN 1
        ELSE Min(weeks_since_start + 1, 35)

\* ----------------------------------------------------------- the two tables
\* a row of the matches table
MatchRow(id, round, match) ==
    [match_id |-> id, round_number |-> round, has |-> match.has,
     home_team_history |-> match.home_team_history,
     away_team_history |-> match.away_team_history, odds |-> match.odds]

\* mutant of TableDelete: the delete removes nothing
TableDelete_keepAll(rows, round) == rows

\* table(...).delete().eq('round_number', round).execute()
TableDelete(rows, round) == SelectSeq(rows, LAMBDA r : r.round_number # round)

\* table(...).insert(records).execute()
TableInsert(rows, records) == rows \o records

MaxMatchId == 2

\* table('matches').select("*").order('match_id').execute(); rows of equal
\* match_id stay in table order
RECURSIVE OrderFrom(_, _)
OrderFrom(rows, id) ==
    IF id > MaxMatchId THEN <<>>
    ELSE SelectSeq(rows, LAMBDA r : r.match_id = id) \o OrderFrom(rows, id + 1)

TableSelectOrdered(rows) == OrderFrom(rows, 1)

\* the prediction_records list store_predictions builds
PredictionRecords(predictions, round, created_at) ==
    [i \in 1..Len(predictions) |->
        [round_number |-> round,
         method |-> predictions[i].method,
         combination |-> predictions[i].combination,
         description |-> predictions[i].description,
         confidence |-> predictions[i].confidence,
         created_at |-> created_at,
         prediction_order |-> i]]

\* the sample_matches entry number id of fetch_current_matches
FetchedMatch(id, round) == MatchRow(id, round, BareMatch)

\* fetch_betting_odds and the history loop of run_weekly_analysis
Enriched(row) ==
    [row EXCEPT !.has = {"home_team_history", "away_team_history", "odds"},
                !.odds = SampleOdds,
                !.home_team_history = History(SampleForm),
                !.away_team_history = History(SampleForm)]

\* ---------------------------------------------------------------------- state
VARIABLES
    step,            \* position of a call of a pure function
    recent_form,     \* argument of calculate_form_score
    form_score,      \* its result
    now,             \* the wall clock
    round_dp,        \* result of the data processor's round number, 0 before
    round_pe,        \* result of the predictor's round number, 0 before
    matches,         \* the list of match records handed to the predictor
    models,          \* per match, get_match_prediction for the three methods
    generated,       \* result of generate_stryktipset_combinations
    pc,              \* position of the running script, "idle" between runs
    run,             \* the script that runs or ran last: "none", "pe", "dp"
    outcome,         \* how the last run ended
    io,              \* the store operations of the run, in order
    tbl_matches,     \* the matches table
    tbl_predictions, \* the predictions table
    fetched,         \* sample_matches / matches_with_odds of the data processor
    current_round,   \* current_round of the store step, 0 before
    runs,            \* number of runs started
    before,          \* the predictions table when the run started
    last_store       \* the last successful store_predictions call

formVars == <<recent_form, form_score>>

roundVars == <<round_dp, round_pe>>

modelVars == <<models>>

sysVars == <<pc, run, outcome, io, tbl_matches, tbl_predictions, fetched,
             current_round, runs, before, last_store>>

vars == <<step, recent_form, form_score, now, round_dp, round_pe, matches,
          models, generated, pc, run, outcome, io, tbl_matches,
          tbl_predictions, fetched, current_round, runs, before, last_store>>

NotGenerated == [raised |-> FALSE, combinations |-> <<>>]

NoStore == [round |-> 0, records |-> <<>>, count |-> 0]

\* values of the variables a specification does not use
IdleForm == recent_form = <<>> /\ form_score = FormOk(1, 2)

IdleRound == round_dp = 0 /\ round_pe = 0

IdleModels == models = <<>>

IdleSys ==
    /\ pc = "idle"
    /\ run = "none"
    /\ outcome = "none"
    /\ io = <<>>
    /\ tbl_matches = <<>>
    /\ tbl_predictions = <<>>
    /\ fetched = <<>>
    /\ current_round = 0
    /\ runs = 0
    /\ before = <<>>
    /\ last_store = NoStore

\* ------------------------------------------- specification: the form score
InitForm ==
    /\ step = "input"
    /\ recent_form \in SeqsUpTo(Results, MaxFormLen)
    /\ form_score = FormOk(1, 2)
    /\ now = Clock(0, 0)
    /\ matches = <<>>
    /\ generated = NotGenerated
    /\ IdleRound
    /\ IdleModels
    /\ IdleSys

CallFormScore ==
    /\ step = "input"
    /\ form_score' = calculate_form_score(recent_form)
    /\ step' = "returned"
    /\ UNCHANGED <<recent_form, now, matches, generated, roundVars, modelVars,
                   sysVars>>

NextForm == CallFormScore

SpecForm == InitForm /\ [][NextForm]_vars

\* ------------------------------------------ specification: the round number
InitRound ==
    /\ step = "input"
    /\ now \in Times
    /\ round_dp = 0
    /\ round_pe = 0
    /\ matches = <<>>
    /\ generated = NotGenerated
    /\ IdleForm
    /\ IdleModels
    /\ IdleSys

CallProcessorRound ==
    /\ round_dp = 0
    /\ round_dp' = DP_get_current_round_number(now)
    /\ step' = "returned"
    /\ UNCHANGED <<now, round_pe, matches, generated, formVars, modelVars,
                   sysVars>>

CallPredictorRound ==
    /\ round_pe = 0
    /\ round_pe' = get_current_round_number(now)
    /\ step' = "returned"
    /\ UNCHANGED <<now, round_dp, matches, generated, formVars, modelVars,
                   sysVars>>

NextRound == CallProcessorRound \/ CallPredictorRound

SpecRound == InitRound /\ [][NextRound]_vars

\* ------------------------------------- specification: the outcome models
InitModels ==
    /\ step = "input"
    /\ matches \in MatchLists(MaxMatches)
    /\ models = <<>>
    /\ generated = NotGenerated
    /\ now = Clock(0, 0)
    /\ IdleForm
    /\ IdleRound
    /\ IdleSys

\* get_match_prediction(match, method) for every match and method
CallModels ==
    /\ step = "input"
    /\ models' = [i \in 1..Len(matches) |->
                    [form_based |-> get_match_prediction(matches[i], "form_based"),
                     odds_based |-> get_match_prediction(matches[i], "odds_based"),
                     hybrid     |-> get_match_prediction(matches[i], "hybrid")]]
    /\ step' = "predicted"
    /\ UNCHANGED <<now, matches, generated, formVars, roundVars, sysVars>>

CallGenerate ==
    /\ step = "predicted"
    /\ generated' = generate_stryktipset_combinations(matches)
    /\ step' = "returned"
    /\ UNCHANGED <<now, matches, models, formVars, roundVars, sysVars>>

NextModels == CallModels \/ CallGenerate

SpecModels == InitModels /\ [][NextModels]_vars

\* ------------------------------------------- specification: the weekly batch
\* runs started in one behaviour
MaxRuns == 3

\* ticks the clock advances in one behaviour
MaxTicks == 2

\* March 1 is a Saturday and it is the last tick of round 1
StartTime == Clock(5, 7 * TicksPerDay - 1)

\* what the matches table may hold before the first run
InitialTables ==
    { <<>>,
      <<MatchRow(1, 1, BareMatch)>>,
      <<MatchRow(1, 1, OverlongMatch)>> }

Init ==
    /\ step = "input"
    /\ now = StartTime
    /\ matches = <<>>
    /\ generated = NotGenerated
    /\ IdleForm
    /\ IdleRound
    /\ IdleModels
    /\ pc = "idle"
    /\ run = "none"
    /\ outcome = "none"
    /\ io = <<>>
    /\ tbl_matches \in InitialTables
    /\ tbl_predictions = <<>>
    /\ fetched = <<>>
    /\ current_round = 0
    /\ runs = 0
    /\ before = <<>>
    /\ last_store = NoStore

pureVars == <<step, formVars, roundVars, modelVars>>

\* time passes
Tick ==
    /\ now.t < StartTime.t + MaxTicks
    /\ now' = Clock(now.march_wd, now.t + 1)
    /\ UNCHANGED <<matches, generated, pureVars, sysVars>>

Io(op, ok) == [op |-> op, ok |-> ok]

\* the run ends with the exception of a failed store operation re-raised
Raise(op) ==
    /\ io' = Append(io, Io(op, FALSE))
    /\ outcome' = "raised"
    /\ pc' = "idle"

\* ---- prediction_engine.py
\* main() -> run_prediction_engine()
RunPredictionEngine ==
    /\ pc = "idle"
    /\ runs < MaxRuns
    /\ runs' = runs + 1
    /\ run' = "pe"
    /\ outcome' = "running"
    /\ io' = <<>>
    /\ matches' = <<>>
    /\ generated' = NotGenerated
    /\ current_round' = 0
    /\ before' = tbl_predictions
    /\ pc' = "pe_load"
    /\ UNCHANGED <<now, pureVars, tbl_matches, tbl_predictions, fetched,
                   last_store>>

\* load_current_matches: the rows ordered by match_id; [] when the table is
\* empty and [] when the read raises
LoadCurrentMatches ==
    /\ pc = "pe_load"
    /\ \E ok \in BOOLEAN :
          /\ io' = Append(io, Io("read", ok))
          /\ matches' = IF ok THEN TableSelectOrdered(tbl_matches) ELSE <<>>
    /\ pc' = "pe_generate"
    /\ UNCHANGED <<now, generated, pureVars, run, outcome, tbl_matches,
                   tbl_predictions, fetched, current_round, runs, before,
                   last_store>>

\* run_prediction_engine after the load: return on no matches, otherwise
\* generate_stryktipset_combinations, whose exception is re-raised
GeneratePredictions ==
    /\ pc = "pe_generate"
    /\ IF matches = <<>>
       THEN /\ outcome' = "returned_none"
            /\ pc' = "idle"
            /\ UNCHANGED generated
       ELSE /\ generated' = generate_stryktipset_combinations(matches)
            /\ IF generated'.raised
               THEN outcome' = "raised" /\ pc' = "idle"
               ELSE outcome' = outcome /\ pc' = "pe_delete"
    /\ UNCHANGED <<now, matches, pureVars, run, io, tbl_matches,
                   tbl_predictions, fetched, current_round, runs, before,
                   last_store>>

\* store_predictions: the round number and the delete of its rows
StorePredictionsDelete ==
    /\ pc = "pe_delete"
    /\ current_round' = get_current_round_number(now)
    /\ \E ok \in BOOLEAN :
          IF ok
          THEN /\ tbl_predictions' = TableDelete(tbl_predictions, current_round')
               /\ io' = Append(io, Io("delete", TRUE))
               /\ pc' = "pe_insert"
               /\ UNCHANGED outcome
          ELSE /\ Raise("delete")
               /\ UNCHANGED tbl_predictions
    /\ UNCHANGED <<now, matches, generated, pureVars, run, tbl_matches,
                   fetched, runs, before, last_store>>

\* store_predictions: the records and their insert; run_prediction_engine
\* then returns the predictions
StorePredictionsInsert ==
    /\ pc = "pe_insert"
    /\ LET prediction_records ==
               PredictionRecords(generated.combinations, current_round, now.t)
       IN  \E ok \in BOOLEAN :
             IF ok
             THEN /\ tbl_predictions' = TableInsert(tbl_predictions,
                                                    prediction_records)
                  /\ io' = Append(io, Io("insert", TRUE))
                  /\ outcome' = "returned_predictions"
                  /\ pc' = "idle"
                  /\ last_store' =
                        [round |-> current_round,
                         records |-> prediction_records,
                         count |-> IF last_store.round = current_round
                                   THEN last_store.count + 1 ELSE 1]
             ELSE /\ Raise("insert")
                  /\ UNCHANGED <<tbl_predictions, last_store>>
    /\ UNCHANGED <<now, matches, generated, pureVars, run, tbl_matches,
                   fetched, current_round, runs, before>>

\* ---- data_processor.py
\* main() -> run_weekly_analysis()
RunWeeklyAnalysis ==
    /\ pc = "idle"
    /\ runs < MaxRuns
    /\ runs' = runs + 1
    /\ run' = "dp"
    /\ outcome' = "running"
    /\ io' = <<>>
    /\ matches' = <<>>
    /\ generated' = NotGenerated
    /\ fetched' = <<>>
    /\ current_round' = 0
    /\ before' = tbl_predictions
    /\ pc' = "dp_fetch"
    /\ UNCHANGED <<now, pureVars, tbl_matches, tbl_predictions, last_store>>

\* fetch_current_matches: the next entry of sample_matches, with the round
\* number of the moment it is built
FetchCurrentMatch ==
    /\ pc = "dp_fetch"
    /\ fetched' = Append(fetched,
                         FetchedMatch(Len(fetched) + 1,
                                      DP_get_current_round_number(now)))
    /\ pc' = IF Len(fetched') = MaxMatchId THEN "dp_enrich" ELSE "dp_fetch"
    /\ UNCHANGED <<now, matches, generated, pureVars, run, outcome, io,
                   tbl_matches, tbl_predictions, current_round, runs, before,
                   last_store>>

\* fetch_betting_odds and fetch_historical_data for every match
EnrichMatches ==
    /\ pc = "dp_enrich"
    /\ fetched' = [i \in 1..Len(fetched) |-> Enriched(fetched[i])]
    /\ pc' = "dp_delete"
    /\ UNCHANGED <<now, matches, generated, pureVars, run, outcome, io,
                   tbl_matches, tbl_predictions, current_round, runs, before,
                   last_store>>

\* store_matches_data: the round number and the delete of its rows
StoreMatchesDelete ==
    /\ pc = "dp_delete"
    /\ current_round' = DP_get_current_round_number(now)
    /\ \E ok \in BOOLEAN :
          IF ok
          THEN /\ tbl_matches' = TableDelete(tbl_matches, current_round')
               /\ io' = Append(io, Io("delete", TRUE))
               /\ pc' = "dp_insert"
               /\ UNCHANGED outcome
          ELSE /\ Raise("delete")
               /\ UNCHANGED tbl_matches
    /\ UNCHANGED <<now, matches, generated, pureVars, run, tbl_predictions,
                   fetched, runs, before, last_store>>

\* store_matches_data: the insert; run_weekly_analysis then returns
StoreMatchesInsert ==
    /\ pc = "dp_insert"
    /\ \E ok \in BOOLEAN :
          IF ok
          THEN /\ tbl_matches' = TableInsert(tbl_matches, fetched)
               /\ io' = Append(io, Io("insert", TRUE))
               /\ outcome' = "returned"
               /\ pc' = "idle"
          ELSE /\ Raise("insert")
               /\ UNCHANGED tbl_matches
    /\ UNCHANGED <<now, matches, generated, pureVars, run, tbl_predictions,
                   fetched, current_round, runs, before, last_store>>

Next ==
    \/ Tick
    \/ RunPredictionEngine
    \/ LoadCurrentMatches
    \/ GeneratePredictions
    \/ StorePredictionsDelete
    \/ StorePredictionsInsert
    \/ RunWeeklyAnalysis
    \/ FetchCurrentMatch
    \/ EnrichMatches
    \/ StoreMatchesDelete
    \/ StoreMatchesInsert

Spec == Init /\ [][Next]_vars

\* ===================================================================== claims

\* ----------------------------------------------------------------------- C1
RowsOfRound(rows, round) == SelectSeq(rows, LAMBDA r : r.round_number = round)

\* C1: after two or more successful store_predictions calls under the same
\* round number r, the rows of round r in the predictions table are exactly
\* the records of the last call: one per combination, prediction_order
\* 1..3, nothing of an earlier call and no duplicates.
C1_RoundReplacement ==
    (pc = "idle" /\ run = "pe" /\ outcome = "returned_predictions"
       /\ last_store.count >= 2) =>
        LET rows == RowsOfRound(tbl_predictions, last_store.round)
        IN  /\ rows = last_store.records
            /\ Len(rows) = 3
            /\ \A i \in 1..Len(rows) : rows[i].prediction_order = i
            /\ \A i, j \in 1..Len(rows) : i # j => rows[i] # rows[j]

\* C1 witness: a second successful store under the same round number has
\* just returned
C1_Witness ==
    /\ pc = "idle"
    /\ run = "pe"
    /\ outcome = "returned_predictions"
    /\ last_store.count >= 2
    /\ Len(tbl_predictions) >= 3

\* ----------------------------------------------------------------------- C2
FailedOps == {i \in 1..Len(io) : ~io[i].ok}

\* C2: a run in which a store operation failed (the read of the matches, a
\* delete or an insert) ends with that error raised to the caller: the
\* failed operation is the last one of the run and the run does not return
\* normally.
C2_StoreFailurePropagates ==
    (pc = "idle" /\ run # "none" /\ FailedOps # {}) =>
        /\ outcome = "raised"
        /\ FailedOps = {Len(io)}

\* ----------------------------------------------------------------------- C3
\* C3: with an empty matches table run_prediction_engine short-circuits: no
\* combinations, no delete and no insert, the predictions table unchanged,
\* no error; and that outcome is not the outcome of any run that hit a
\* store failure.
C3_EmptyInputShortCircuit ==
    (pc = "idle" /\ run = "pe") =>
        /\ tbl_matches = <<>> =>
              /\ outcome = "returned_none"
              /\ generated = NotGenerated
              /\ \A i \in 1..Len(io) : io[i].op = "read"
              /\ tbl_predictions = before
        /\ FailedOps # {} => outcome # "returned_none"

\* ----------------------------------------------------------------------- C6
\* the weighted average the form score is meant to be, as numerator and
\* denominator: the weights 1.0, 0.8, 0.6, 0.4, 0.2 (10, 8, 6, 4, 2 tenths)
\* on the most recent games, as many as there are; results are in halves
RECURSIVE ClaimedWeighted(_, _)
ClaimedWeighted(form, i) ==
    IF i > Min(Len(form), 5) THEN 0
    ELSE form[i] * (12 - 2 * i) + ClaimedWeighted(form, i + 1)

RECURSIVE ClaimedWeightTotal(_, _)
ClaimedWeightTotal(form, i) ==
    IF i > Min(Len(form), 5) THEN 0
    ELSE 2 * (12 - 2 * i) + ClaimedWeightTotal(form, i + 1)

\* C6: calculate_form_score never fails; for the empty sequence it returns
\* exactly 0.5, and for every non-empty sequence of any length it returns the
\* weighted average under the weights [1.0, 0.8, 0.6, 0.4, 0.2] aligned to
\* the input, a value in [0, 1].
C6_FormScoreTotal ==
    step = "returned" =>
        /\ ~form_score.raised
        /\ recent_form = <<>> => 2 * form_score.num = form_score.den
        /\ recent_form # <<>> =>
              /\ form_score.num * ClaimedWeightTotal(recent_form, 1)
                    = ClaimedWeighted(recent_form, 1) * form_score.den
              /\ form_score.num >= 0
              /\ form_score.num <= form_score.den

\* ----------------------------------------------------------------------- C7
\* days from March 1 to the first Saturday on or after it
ClaimedFirstSaturday(wd) == CHOOSE d \in 0..6 : (wd + d) % 7 = 5

ClaimedRound(clock) ==
    LET start == ClaimedFirstSaturday(clock.march_wd) * TicksPerDay
    IN  IF clock.t < start THEN 1
        ELSE Min(((clock.t - start) \div (7 * TicksPerDay)) + 1, 35)

\* C7: for every value of now both get_current_round_number implementations
\* return the same integer in 1..35: 1 before the first Saturday on or after
\* March 1, otherwise min(floor(days since that Saturday / 7) + 1, 35).
C7_RoundNumber ==
    (round_dp # 0 /\ round_pe # 0) =>
        /\ round_dp = round_pe
        /\ round_pe \in 1..35
        /\ round_pe = ClaimedRound(now)

\* C7 witness: both implementations were called exactly 7 days after the
\* first Saturday and returned 2
C7_Witness ==
    /\ round_dp = 2
    /\ round_pe = 2
    /\ now.t = (ClaimedFirstSaturday(now.march_wd) + 7) * TicksPerDay

\* ----------------------------------------------------------------------- C4
Symbols == {"1", "X", "2"}

\* C4: for every list of N >= 0 matches the generator returns exactly three
\* combinations, in the order Hybrid, Conservative, Value, each with N
\* symbols of {'1', 'X', '2'}, the i-th being the pick for the i-th match.
C4_ThreeCombinations ==
    step = "returned" =>
        /\ ~generated.raised
        /\ Len(generated.combinations) = 3
        /\ generated.combinations[1].method = "Hybrid Prediction"
        /\ generated.combinations[2].method = "Conservative"
        /\ generated.combinations[3].method = "Value Betting"
        /\ \A k \in 1..3 :
              /\ Len(generated.combinations[k].combination) = Len(matches)
              /\ \A i \in 1..Len(matches) :
                    generated.combinations[k].combination[i] \in Symbols
        /\ \A i \in 1..Len(matches) :
              generated.combinations[1].combination[i]
                  = models[i].hybrid.predicted_result

\* ----------------------------------------------------------------------- C5
Methods == {"form_based", "odds_based", "hybrid"}

\* C5: the (home_prob, draw_prob, away_prob) triple each of the three models
\* returns, after the rounding to 3 decimals, sums to 1.0 and has every
\* component in [0, 1].
C5_ProbabilitiesSumToOne ==
    step # "input" =>
        \A i \in 1..Len(matches) : \A m \in Methods :
            LET p == models[i][m].prediction
            IN  ~p.raised =>
                   /\ p.home_prob + p.draw_prob + p.away_prob = 1000
                   /\ p.home_prob \in 0..1000
                   /\ p.draw_prob \in 0..1000
                   /\ p.away_prob \in 0..1000

\* ----------------------------------------------------------------------- C8
Prob(p, symbol) ==
    IF symbol = "1" THEN p.home_prob
    ELSE IF symbol = "X" THEN p.draw_prob ELSE p.away_prob

\* C8: get_match_prediction returns a symbol of maximal probability, and on
\* an exact tie the first tied one in the order '1', 'X', '2'.
C8_FirstMaximal ==
    step # "input" =>
        \A i \in 1..Len(matches) : \A m \in Methods :
            LET r == models[i][m]
                p == r.prediction
            IN  ~r.raised =>
                   /\ \A y \in Symbols : Prob(p, r.predicted_result) >= Prob(p, y)
                   /\ r.predicted_result = "X" => p.home_prob < p.draw_prob
                   /\ r.predicted_result = "2" =>
                         /\ p.home_prob < p.away_prob
                         /\ p.draw_prob < p.away_prob

\* C8 witness: the odds-based probabilities are exactly (0.4, 0.4, 0.2) and
\* the selection returned '1'
C8_Witness ==
    /\ step = "predicted"
    /\ Len(matches) = 1
    /\ models[1].odds_based.prediction.home_prob = 400
    /\ models[1].odds_based.prediction.draw_prob = 400
    /\ models[1].odds_based.prediction.away_prob = 200
    /\ models[1].odds_based.predicted_result = "1"

\* ----------------------------------------------------------------------- C9
\* C9: every pick of the Conservative combination follows from the hybrid
\* probabilities of its match alone: 'X' when draw > 0.25, otherwise '1'
\* when home > away, otherwise '2'.
C9_ConservativeRule ==
    (step = "returned" /\ ~generated.raised) =>
        \A i \in 1..Len(matches) :
            LET p == models[i].hybrid.prediction
                pick == generated.combinations[2].combination[i]
            IN  /\ p.draw_prob > 250 => pick = "X"
                /\ (p.draw_prob <= 250 /\ p.home_prob > p.away_prob) => pick = "1"
                /\ (p.draw_prob <= 250 /\ p.home_prob <= p.away_prob) => pick = "2"

\* C9 witness: the hybrid draw probability is above 0.25 but below the home
\* probability, and the Conservative pick is 'X'
C9_Witness ==
    /\ step = "returned"
    /\ ~generated.raised
    /\ Len(matches) = 1
    /\ models[1].hybrid.prediction.draw_prob > 250
    /\ models[1].hybrid.prediction.draw_prob < models[1].hybrid.prediction.home_prob
    /\ generated.combinations[2].combination[1] = "X"

\* ---------------------------------------------------------------------- C10
NoHomeHistory(match) ==
    \/ "home_team_history" \notin match.has
    \/ "recent_form" \notin match.home_team_history.has

NoAwayHistory(match) ==
    \/ "away_team_history" \notin match.has
    \/ "recent_form" \notin match.away_team_history.has

NoOdds(match) == "odds" \notin match.has \/ match.odds.has = {}

\* a history whose form score is 0.5: one draw
NeutralHistory == History(<<1>>)

WithNeutralHistories(match) ==
    [match EXCEPT
        !.has = (@ \cup IF NoHomeHistory(match) THEN {"home_team_history"} ELSE {})
                   \cup IF NoAwayHistory(match) THEN {"away_team_history"} ELSE {},
        !.home_team_history = IF NoHomeHistory(match) THEN NeutralHistory ELSE @,
        !.away_team_history = IF NoAwayHistory(match) THEN NeutralHistory ELSE @]

\* C10: missing sub-data never raises.  A missing history counts as form
\* score 0.5; without an odds block the odds-based model returns the
\* form-based result, so both picks agree and the Value pick is the
\* form-based pick; a list of matches that have no history at all makes no
\* model and not the generator raise.
C10_MissingSubData ==
    step = "returned" =>
        /\ \A i \in 1..Len(matches) :
              /\ models[i].form_based.prediction
                     = predict_match_form_based(WithNeutralHistories(matches[i]))
              /\ NoOdds(matches[i]) =>
                    /\ models[i].odds_based = models[i].form_based
                    /\ ~generated.raised =>
                          generated.combinations[3].combination[i]
                              = models[i].form_based.predicted_result
              /\ (NoHomeHistory(matches[i]) /\ NoAwayHistory(matches[i])) =>
                    \A m \in Methods : ~models[i][m].raised
        /\ (\A i \in 1..Len(matches) :
               NoHomeHistory(matches[i]) /\ NoAwayHistory(matches[i]))
              => ~generated.raised

\* C10 witness: a match without histories and without odds went through the
\* three models and the generator
C10_Witness ==
    /\ step = "returned"
    /\ Len(matches) = 1
    /\ matches[1].has = {}
    /\ ~generated.raised
    /\ generated.combinations[3].combination[1]
           = models[1].form_based.predicted_result

\* ---------------------------------------------------------------------- C11
\* the raw form score of one side of a match, 0.5 when the history or its
\* recent_form is missing
RawForm(match, side) ==
    calculate_form_score(Get(Get(match, side, EmptyHistory), "recent_form", <<>>))

\* abs(home form - away form) rounded to 3 decimals, in thousandths
ClaimedConfidence(match) ==
    LET h == RawForm(match, "home_team_history")
        a == RawForm(match, "away_team_history")
    IN  Round3(Abs(h.num * a.den - a.num * h.den), h.den * a.den)

\* C11: every pick of the Value combination is the form-based outcome when
\* that outcome differs from the odds-based outcome and the form confidence,
\* abs(raw home form - raw away form) rounded to 3 decimals, is strictly
\* above 0.3; in every other case the pick is the odds-based outcome.  So
\* the pick departs from the odds-based outcome exactly under that condition.
C11_ValueRule ==
    (step = "returned" /\ ~generated.raised) =>
        \A i \in 1..Len(matches) :
            LET form_pred == models[i].form_based.predicted_result
                odds_pred == models[i].odds_based.predicted_result
                pick == generated.combinations[3].combination[i]
                value == form_pred # odds_pred
                         /\ ClaimedConfidence(matches[i]) > 300
            IN  /\ generated.combinations[3].method = "Value Betting"
                /\ models[i].form_based.prediction.confidence
                       = ClaimedConfidence(matches[i])
                /\ value => pick = form_pred
                /\ ~value => pick = odds_pred
                /\ (pick # odds_pred) <=> value

\* C11 witness: the match has odds, its form-based and odds-based outcomes
\* differ, its form confidence is above 0.3, and the Value pick is the
\* form-based outcome
C11_Witness ==
    /\ step = "returned"
    /\ ~generated.raised
    /\ Len(matches) = 1
    /\ "odds" \in matches[1].has
    /\ models[1].form_based.predicted_result
           # models[1].odds_based.predicted_result
    /\ ClaimedConfidence(matches[1]) > 300
    /\ generated.combinations[3].combination[1]
           = models[1].form_based.predicted_result

\* ---------------------------------------------------------------------- C12
\* the round numbers carried by the records of a list
RoundsOf(rows) == {rows[i].round_number : i \in 1..Len(rows)}

\* C12: when run_weekly_analysis has returned, every match record it
\* inserted carries the round number its store_matches_data call used as the
\* delete filter, and for every round it wrote the matches table holds the
\* records of this run and no record of an earlier one, whatever the times
\* at which the steps read the clock.
C12_InsertedRoundIsDeletedRound ==
    (run = "dp" /\ outcome = "returned") =>
        /\ \A i \in 1..Len(fetched) : fetched[i].round_number = current_round
        /\ \A r \in RoundsOf(fetched) :
              RowsOfRound(tbl_matches, r) = RowsOfRound(fetched, r)

====
